---- MODULE Spec2Model ----
(***************************************************************************)
(* The post resource of golang-gorm-starter: services/post.service.go and  *)
(* controllers/post.controller.go over one relational store.  Every HTTP   *)
(* request is one call into PostService; calls of different requests       *)
(* interleave at their store statements.                                   *)
(***************************************************************************)
EXTENDS Integers, Sequences, FiniteSets, Bags, TLC

\* ---------------------------------------------------------------- bounds
\* requests started in one behaviour
MaxCalls == 2
\* the clock runs from 1 to MaxTime
MaxTime == 2
\* a behaviour starts from a store of 0..MaxRows posts
MaxRows == 2
\* a paging behaviour starts from a store of 0..MaxPageRows posts
MaxPageRows == 3

\* ---------------------------------------------------------------- inputs
Users == {"u1", "u2"}
Titles == {"t1", "t2"}
CreateContents == {"c1"}
CreateImages == {""}
UpdateTitles == {""} \cup Titles
UpdateContents == {"c2"}
UpdateImages == {"i2"}
ReqIDs == {1, 2}
Times == 1..MaxTime

\* query-string values: a sequence of characters, or Absent (no such key)
Absent == <<"absent">>
Digits == {"0", "1", "2", "3", "4", "5", "6", "7", "8", "9"}
RawPages ==
    {Absent, <<>>, <<"0">>, <<"-", "1">>, <<"1">>, <<"2">>, <<"+", "3">>, <<"2", "x">>}
RawLimits == {Absent, <<"x">>, <<"0">>, <<"-", "2">>, <<"1">>, <<"2">>}

\* ---------------------------------------------------------------- state
VARIABLES posts, nextID, clock, inflight, ret, ncalls, creates, deleted, issued

vars == <<posts, nextID, clock, inflight, ret, ncalls, creates, deleted, issued>>

\* models.Post as the service uses it; id 0 is the zero value (no post)
NoPost == [id |-> 0, title |-> "", content |-> "", image |-> "", user |-> "",
           createdAt |-> 0, updatedAt |-> 0]

\* ret is the answer of the call that returned in the last step, if one did
NoRet == [op |-> "none"]

Rows(store) == {store[i] : i \in DOMAIN store}

TitleHeld(store, title) == \E i \in DOMAIN store : store[i].title = title

TitleHeldByOther(store, id, title) ==
    \E i \in DOMAIN store : i # id /\ store[i].title = title

\* ---------------------------------------------------------------- store
\* the identifier the store gives a new row
NewID == nextID

\* INSERT: the unique index on title rejects a second row with the title
DBCreate(store, newPost) ==
    IF TitleHeld(store, newPost.title)
    THEN [err |-> "duplicate key", store |-> store, row |-> NoPost]
    ELSE LET row == [newPost EXCEPT !.id = NewID]
         IN [err |-> "", store |-> (NewID :> row) @@ store, row |-> row]

\* SELECT ... WHERE id = ? ORDER BY id LIMIT 1
DBFirst(store, id) ==
    IF id \in DOMAIN store
    THEN [err |-> "", row |-> store[id]]
    ELSE [err |-> "record not found", row |-> NoPost]

\* Updates(struct): only the non-zero fields of the struct are written
Assign(row, data) ==
    [row EXCEPT
        !.title = IF data.title # "" THEN data.title ELSE @,
        !.content = IF data.content # "" THEN data.content ELSE @,
        !.image = IF data.image # "" THEN data.image ELSE @,
        !.user = IF data.user # "" THEN data.user ELSE @,
        !.updatedAt = IF data.updatedAt # 0 THEN data.updatedAt ELSE @]

\* Updates on a copy of the model: the write runs, existingPost keeps its values
DBUpdatesDetached(store, model, data) ==
    LET id == model.id
    IN IF id \notin DOMAIN store
       THEN [err |-> "", rows |-> 0, store |-> store, model |-> model]
       ELSE IF data.title # "" /\ TitleHeldByOther(store, id, data.title)
       THEN [err |-> "duplicate key", rows |-> 0, store |-> store, model |-> model]
       ELSE [err |-> "", rows |-> 1,
             store |-> [store EXCEPT ![id] = Assign(@, data)], model |-> model]

\* Model(&existingPost).Updates(updatedData): the values are assigned to the
\* model in memory, then UPDATE ... WHERE id = existingPost.id runs
DBUpdates(store, model, data) ==
    LET id == model.id
        mem == Assign(model, data)
    IN IF id \notin DOMAIN store
       THEN [err |-> "", rows |-> 0, store |-> store, model |-> mem]
       ELSE IF data.title # "" /\ TitleHeldByOther(store, id, data.title)
       THEN [err |-> "duplicate key", rows |-> 0, store |-> store, model |-> mem]
       ELSE [err |-> "", rows |-> 1,
             store |-> [store EXCEPT ![id] = Assign(@, data)], model |-> mem]

\* DELETE ... WHERE id = ?
DBDelete(store, id) ==
    IF id \in DOMAIN store
    THEN [err |-> "", rows |-> 1,
          store |-> [i \in DOMAIN store \ {id} |-> store[i]]]
    ELSE [err |-> "", rows |-> 0, store |-> store]

\* ---------------------------------------------------------------- calls
Add(bag, c) == bag (+) SetToBag({c})

Remove(bag, c) == bag (-) SetToBag({c})

CanStart == ncalls < MaxCalls

\* a store that holds the posts 1..n, each with a title of its own
StoreOf(n) ==
    [i \in 1..n |-> [id |-> i, title |-> "t" \o ToString(i), content |-> "c1",
                     image |-> "", user |-> "u1", createdAt |-> 1, updatedAt |-> 1]]

\* the service starts on a store that holds the posts of earlier runs
InitOn(maxRows) ==
    /\ \E n \in 0..maxRows : posts = StoreOf(n) /\ nextID = n + 1 /\ issued = 1..n
    /\ clock = 1
    /\ inflight = EmptyBag
    /\ ret = NoRet
    /\ ncalls = 0
    /\ creates = [t \in Titles |->
                    [held0 |-> TitleHeld(posts, t), started |-> 0, ok |-> 0, dup |-> 0]]
    /\ deleted = {}

Init == InitOn(MaxRows)

\* time.Now(): the clock never runs backwards; it reads now and stands at now
TimeNow(now) == now \in clock..MaxTime /\ clock' = now

\* CreatePost without the "duplicate key" case
CreateErrorGeneric(dberr) == IF dberr = "" THEN "" ELSE "failed to create post"

\* the error CreatePost returns for the store's error
CreateError(dberr) ==
    IF dberr = "" THEN ""
    ELSE IF dberr = "duplicate key" THEN "post with that title already exists"
    ELSE "failed to create post"

\* the status the handler answers with
CreateStatus(err) ==
    IF err = "" THEN 201
    ELSE IF err = "post with that title already exists" THEN 409
    ELSE 502

\* newPost with UpdatedAt left to the write
NewPostCreatedOnly(title, content, image, user, now) ==
    [NoPost EXCEPT !.title = title, !.content = content, !.image = image,
                   !.user = user, !.createdAt = now, !.updatedAt = now + 1]

\* newPost, as CreatePost builds it
NewPost(title, content, image, user, now) ==
    [NoPost EXCEPT !.title = title, !.content = content, !.image = image,
                   !.user = user, !.createdAt = now, !.updatedAt = now]

\* CreatePost up to the store call: the clock is read and newPost is built
CreatePostBegin(title, content, image, user, now) ==
    /\ CanStart
    /\ TimeNow(now)
    /\ inflight' = Add(inflight,
          [pc |-> "L35", start |-> clock, user |-> user, now |-> now,
           data |-> NewPost(title, content, image, user, now),
           existing |-> NoPost, found |-> FALSE])
    /\ ncalls' = ncalls + 1
    /\ creates' = [creates EXCEPT ![title].started = @ + 1]
    /\ ret' = NoRet
    /\ UNCHANGED <<posts, nextID, deleted, issued>>

\* s.DB.Create(&newPost) and the return
CreatePostInsert(c) ==
    /\ c.pc = "L35"
    /\ LET r == DBCreate(posts, c.data)
           err == CreateError(r.err)
       IN /\ posts' = r.store
          /\ nextID' = IF r.err = "" THEN nextID + 1 ELSE nextID
          /\ issued' = IF r.err = "" THEN issued \cup {r.row.id} ELSE issued
          /\ ret' = [op |-> "create", err |-> err, status |-> CreateStatus(err),
                     post |-> IF err = "" THEN r.row ELSE NoPost,
                     title |-> c.data.title, caller |-> c.user, start |-> c.start,
                     titleFree |-> ~TitleHeld(posts, c.data.title),
                     issuedBefore |-> issued, wrote |-> (r.store # posts)]
          /\ creates' = [creates EXCEPT
                ![c.data.title].ok = IF err = "" THEN @ + 1 ELSE @,
                ![c.data.title].dup =
                    IF err = "post with that title already exists" THEN @ + 1 ELSE @]
    /\ inflight' = Remove(inflight, c)
    /\ UNCHANGED <<clock, ncalls, deleted>>

\* the existence check with its error dropped
FetchErrorIgnored(dberr) == ""

\* the error UpdatePost returns for the error of its existence check
FetchError(dberr) ==
    IF dberr = "" THEN ""
    ELSE IF dberr = "record not found" THEN "post not found"
    ELSE "failed to fetch post"

\* the error UpdatePost returns for the error of its write
UpdateError(dberr) == IF dberr = "" THEN "" ELSE "failed to update post"

\* the status the UpdatePost, FindPostById and DeletePost handlers answer with
NotFoundStatus(err, okStatus) ==
    IF err = "" THEN okStatus
    ELSE IF err = "post not found" THEN 404
    ELSE 502

\* updatedData, as UpdatePost builds it
UpdatedData(title, content, image, user, now) ==
    [NoPost EXCEPT !.title = title, !.content = content, !.image = image,
                   !.user = user, !.updatedAt = now]

\* UpdatePost, the existence check: s.DB.First(&existingPost, "id = ?", postID)
UpdatePostFirst(id, title, content, image, user) ==
    /\ CanStart
    /\ ncalls' = ncalls + 1
    /\ LET r == DBFirst(posts, id)
           err == FetchError(r.err)
       IN IF err # ""
          THEN /\ ret' = [op |-> "update", id |-> id, err |-> err,
                          status |-> NotFoundStatus(err, 200), post |-> NoPost,
                          existed |-> (id \in DOMAIN posts), caller |-> user,
                          fetched |-> NoPost, data |-> NoPost, now |-> 0,
                          before |-> NoPost, after |-> NoPost, rows |-> 0,
                          dup |-> FALSE, wrote |-> FALSE]
               /\ inflight' = inflight
          ELSE /\ inflight' = Add(inflight,
                     [pc |-> "L62", start |-> 0, user |-> user, now |-> 0,
                      data |-> UpdatedData(title, content, image, "", 0),
                      existing |-> r.row, found |-> (id \in DOMAIN posts)])
               /\ ret' = NoRet
    /\ UNCHANGED <<posts, nextID, clock, creates, deleted, issued>>

\* UpdatePost, now := time.Now() and updatedData
UpdatePostNow(c, now) ==
    /\ c.pc = "L62"
    /\ TimeNow(now)
    /\ inflight' = Add(Remove(inflight, c),
          [c EXCEPT !.pc = "L71", !.now = now,
                    !.data = UpdatedData(c.data.title, c.data.content,
                                         c.data.image, c.user, now)])
    /\ ret' = NoRet
    /\ UNCHANGED <<posts, nextID, ncalls, creates, deleted, issued>>

\* UpdatePost, the write: s.DB.Model(&existingPost).Updates(updatedData), and
\* the return of &existingPost
UpdatePostUpdates(c) ==
    /\ c.pc = "L71"
    /\ LET id == c.existing.id
           r == DBUpdates(posts, c.existing, c.data)
           err == UpdateError(r.err)
       IN /\ posts' = r.store
          /\ ret' = [op |-> "update", id |-> id, err |-> err,
                     status |-> NotFoundStatus(err, 200),
                     post |-> IF err = "" THEN r.model ELSE NoPost,
                     existed |-> c.found, caller |-> c.user,
                     fetched |-> c.existing, data |-> c.data, now |-> c.now,
                     before |-> IF id \in DOMAIN posts THEN posts[id] ELSE NoPost,
                     after |-> IF id \in DOMAIN r.store THEN r.store[id] ELSE NoPost,
                     rows |-> r.rows,
                     dup |-> (id \in DOMAIN posts /\ c.data.title # ""
                                /\ TitleHeldByOther(posts, id, c.data.title)),
                     wrote |-> (r.store # posts)]
    /\ inflight' = Remove(inflight, c)
    /\ UNCHANGED <<nextID, clock, ncalls, creates, deleted, issued>>

\* FindPostByID and its handler
FindPostByID(id) ==
    /\ CanStart
    /\ ncalls' = ncalls + 1
    /\ LET r == DBFirst(posts, id)
           err == FetchError(r.err)
       IN ret' = [op |-> "find", id |-> id, err |-> err,
                  status |-> NotFoundStatus(err, 200),
                  post |-> IF err = "" THEN r.row ELSE NoPost,
                  gone |-> (id \in deleted)]
    /\ UNCHANGED <<posts, nextID, clock, inflight, creates, deleted, issued>>

\* DeletePost without the RowsAffected check
DeleteErrorAnyRows(dberr, rows) == IF dberr # "" THEN "failed to delete post" ELSE ""

\* the error DeletePost returns
DeleteError(dberr, rows) ==
    IF dberr # "" THEN "failed to delete post"
    ELSE IF rows = 0 THEN "post not found"
    ELSE ""

\* DeletePost and its handler
DeletePost(id) ==
    /\ CanStart
    /\ ncalls' = ncalls + 1
    /\ LET r == DBDelete(posts, id)
           err == DeleteError(r.err, r.rows)
       IN /\ posts' = r.store
          /\ ret' = [op |-> "delete", id |-> id, err |-> err,
                     status |-> NotFoundStatus(err, 204),
                     existed |-> (id \in DOMAIN posts), gone |-> (id \in deleted),
                     wrote |-> (r.store # posts)]
          /\ deleted' = IF err = "" THEN deleted \cup {id} ELSE deleted
    /\ UNCHANGED <<nextID, clock, inflight, creates, issued>>

\* ---------------------------------------------------------------- paging
RECURSIVE DigitsValue(_, _)
\* the number a sequence of digits denotes, after the digits read so far
DigitsValue(s, acc) ==
    IF s = <<>> THEN acc
    ELSE LET d == CHOOSE n \in 0..9 : ToString(n) = Head(s)
         IN DigitsValue(Tail(s), acc * 10 + d)

\* strconv.Atoi: an optional sign, then one or more decimal digits
Atoi(s) ==
    LET signed == Len(s) > 0 /\ Head(s) \in {"+", "-"}
        body == IF signed THEN Tail(s) ELSE s
    IN IF Len(body) = 0 \/ \E k \in 1..Len(body) : body[k] \notin Digits
       THEN [err |-> TRUE, n |-> 0]
       ELSE [err |-> FALSE,
             n |-> IF signed /\ Head(s) = "-"
                   THEN 0 - DigitsValue(body, 0) ELSE DigitsValue(body, 0)]

\* ctx.DefaultQuery(key, def)
DefaultQuery(raw, def) == IF raw = Absent THEN def ELSE raw

\* the handler's page: intPage after the check of err and intPage < 1
NormalizePage(raw) ==
    LET r == Atoi(DefaultQuery(raw, <<"1">>))
    IN IF r.err \/ r.n < 1 THEN 1 ELSE r.n

\* the limit check written as intLimit < 0
NormalizeLimitZero(raw) ==
    LET r == Atoi(DefaultQuery(raw, <<"1", "0">>))
    IN IF r.err \/ r.n < 0 THEN 10 ELSE r.n

\* the handler's limit: intLimit after the check of err and intLimit < 1
NormalizeLimit(raw) ==
    LET r == Atoi(DefaultQuery(raw, <<"1", "0">>))
    IN IF r.err \/ r.n < 1 THEN 10 ELSE r.n

\* offset := (page - 1) * limit
Offset(page, limit) == (page - 1) * limit

\* every sequence that holds each row of the set once
Orderings(rows) ==
    {o \in [1..Cardinality(rows) -> rows] : \A r \in rows : \E k \in DOMAIN o : o[k] = r}

Min(a, b) == IF a < b THEN a ELSE b

\* the rows offset+1 .. offset+limit of an ordering
Window(o, offset, limit) == SubSeq(o, offset + 1, Min(Len(o), offset + limit))

\* SELECT * FROM posts LIMIT limit OFFSET offset: the statement has no ORDER
\* BY, so the store answers from any ordering of the rows
DBFind(rows, offset, limit) == {Window(o, offset, limit) : o \in Orderings(rows)}

\* the FindPosts handler and PostService.FindPosts
FindPosts(rawPage, rawLimit) ==
    /\ CanStart
    /\ ncalls' = ncalls + 1
    /\ LET page == NormalizePage(rawPage)
           limit == NormalizeLimit(rawLimit)
           offset == Offset(page, limit)
       IN \E result \in DBFind(Rows(posts), offset, limit) :
             ret' = [op |-> "findposts", err |-> "", status |-> 200,
                     rawPage |-> rawPage, rawLimit |-> rawLimit,
                     page |-> page, limit |-> limit, offset |-> offset,
                     result |-> result, seen |-> Rows(posts)]
    /\ UNCHANGED <<posts, nextID, clock, inflight, creates, deleted, issued>>

\* ---------------------------------------------------------------- behaviours
\* requests that create, update, read and delete single posts
Next ==
    \/ \E t \in Titles, c \in CreateContents, i \in CreateImages, u \in Users,
          now \in Times : CreatePostBegin(t, c, i, u, now)
    \/ \E c \in BagToSet(inflight) : CreatePostInsert(c)
    \/ \E id \in ReqIDs, t \in UpdateTitles, c \in UpdateContents,
          i \in UpdateImages, u \in Users : UpdatePostFirst(id, t, c, i, u)
    \/ \E c \in BagToSet(inflight), now \in Times : UpdatePostNow(c, now)
    \/ \E c \in BagToSet(inflight) : UpdatePostUpdates(c)
    \/ \E id \in ReqIDs : FindPostByID(id)
    \/ \E id \in ReqIDs : DeletePost(id)

Spec == Init /\ [][Next]_vars

\* only CreatePost requests arrive
NextCreate ==
    \/ \E t \in Titles, c \in CreateContents, i \in CreateImages, u \in Users,
          now \in Times : CreatePostBegin(t, c, i, u, now)
    \/ \E c \in BagToSet(inflight) : CreatePostInsert(c)

SpecCreate == Init /\ [][NextCreate]_vars

InitPaging == InitOn(MaxPageRows)

\* pages are read, and posts are deleted between the reads
NextPaging ==
    \/ \E rp \in RawPages, rl \in RawLimits : FindPosts(rp, rl)
    \/ \E id \in ReqIDs : DeletePost(id)

SpecPaging == InitPaging /\ [][NextPaging]_vars

\* ---------------------------------------------------------------- properties
Conflict == "post with that title already exists"

NotFound == "post not found"

\* the CreatePost calls for a title that have not returned yet
PendingCreates(t) ==
    LET S == {c \in BagToSet(inflight) : c.pc = "L35" /\ c.data.title = t}
    IN BagCardinality([c \in S |-> inflight[c]])

RowsTitled(t) == {i \in DOMAIN posts : posts[i].title = t}

\* C1: of the CreatePost calls for one title that the store did not hold at the
\* start, in any interleaving, exactly one returns a post and each other one
\* returns the conflict error; the store ends with one post of that title.
C1_OneCreateWins ==
    \A t \in Titles :
        LET returned == creates[t].started - PendingCreates(t)
        IN ~creates[t].held0 =>
              /\ creates[t].ok + creates[t].dup = returned
              /\ returned >= 1 =>
                    /\ creates[t].ok = 1
                    /\ creates[t].dup = returned - 1
                    /\ Cardinality(RowsTitled(t)) = 1

\* two calls for a title the store did not hold have both returned
C1_Witness ==
    \E t \in Titles :
        /\ ~creates[t].held0
        /\ creates[t].started >= 2
        /\ PendingCreates(t) = 0
        /\ creates[t].ok = 1
        /\ creates[t].dup >= 1
        /\ ret.op = "create" /\ ret.status = 409

\* C2: UpdatePost for an identifier that matches no stored post returns "post
\* not found" and writes nothing.
C2_UpdateMissing ==
    (ret.op = "update" /\ ~ret.existed) =>
        /\ ret.err = NotFound
        /\ ret.status = 404
        /\ ret.post = NoPost
        /\ ~ret.wrote

C2_Witness ==
    /\ ret.op = "update" /\ ~ret.existed /\ ret.err = NotFound
    /\ posts # <<>>

\* C3: an UpdatePost that succeeds on a stored post leaves the row with an
\* update timestamp not below the one it had, the creation timestamp it had, and
\* the caller as owning user, whatever the interleaving of the updates.
C3_UpdateStamps ==
    (ret.op = "update" /\ ret.err = "" /\ ret.before # NoPost) =>
        /\ ret.after.updatedAt >= ret.before.updatedAt
        /\ ret.after.createdAt = ret.before.createdAt
        /\ ret.after.user = ret.caller

\* C4: DeletePost for an identifier that matches no stored post returns "post
\* not found" and changes nothing; for a stored post it succeeds and removes the
\* post for good: every later FindPostByID and DeletePost for the identifier
\* returns "post not found".
C4_Delete ==
    /\ (ret.op = "delete" /\ ~ret.existed) =>
          ret.err = NotFound /\ ret.status = 404 /\ ~ret.wrote
    /\ (ret.op = "delete" /\ ret.existed) =>
          ret.err = "" /\ ret.status = 204 /\ ret.id \notin DOMAIN posts
    /\ deleted \cap DOMAIN posts = {}
    /\ (ret.op \in {"find", "delete"} /\ ret.gone) =>
          ret.err = NotFound /\ ret.status = 404

C4_Witness ==
    /\ ret.op \in {"find", "delete"} /\ ret.gone
    /\ ret.err = NotFound

Max(a, b) == IF a > b THEN a ELSE b

\* the number of posts the page of a store of n posts holds
PageSize(n, page, limit) == Min(limit, Max(0, n - (page - 1) * limit))

\* C5: with no write between them, every FindPosts(page, limit) returns
\* min(limit, max(0, N - (page-1)*limit)) posts, the ones at the positions
\* (page-1)*limit .. (page-1)*limit + limit - 1 of one ordering of the store that
\* is the same for all the calls.
C5_StablePages ==
    [][(ret.op = "findposts" /\ ret'.op = "findposts" /\ ret.seen = ret'.seen) =>
          /\ Len(ret'.result) =
                PageSize(Cardinality(ret'.seen), ret'.page, ret'.limit)
          /\ \E o \in Orderings(ret.seen) :
                /\ ret.result = Window(o, (ret.page - 1) * ret.limit, ret.limit)
                /\ ret'.result =
                      Window(o, (ret'.page - 1) * ret'.limit, ret'.limit)]_vars

\* what a query-string value says as a positive integer, 0 when it says none
Positive(raw) ==
    CASE raw = <<"1">> -> 1
      [] raw = <<"2">> -> 2
      [] raw = <<"+", "3">> -> 3
      [] raw = <<"1", "0">> -> 10
      [] OTHER -> 0

\* C6: the FindPosts handler replaces a page that is no positive integer by 1
\* and a limit that is no positive integer by 10, queries the store with offset
\* (page-1)*limit and that limit, and so answers a request with neither like
\* FindPosts(1, 10).
C6_Normalized ==
    ret.op = "findposts" =>
        /\ ret.status = 200
        /\ ret.page = (IF Positive(ret.rawPage) = 0 THEN 1 ELSE Positive(ret.rawPage))
        /\ ret.limit =
              (IF Positive(ret.rawLimit) = 0 THEN 10 ELSE Positive(ret.rawLimit))
        /\ ret.offset = (ret.page - 1) * ret.limit
        /\ ret.result \in DBFind(ret.seen, ret.offset, ret.limit)
        /\ (Positive(ret.rawPage) = 0 /\ Positive(ret.rawLimit) = 0) =>
              ret.result \in DBFind(ret.seen, 0, 10)

C6_Witness ==
    /\ ret.op = "findposts"
    /\ ret.rawPage = <<"-", "1">> /\ ret.rawLimit = <<"0">>
    /\ ret.page = 1 /\ ret.limit = 10
    /\ Len(ret.result) = MaxPageRows

\* C7: no two stored posts have the same title, and each attempt to break that,
\* by CreatePost or by UpdatePost, returns the conflict error and leaves the
\* store as it was.
C7_TitleConflicts ==
    /\ \A i, j \in DOMAIN posts : posts[i].title = posts[j].title => i = j
    /\ (ret.op = "create" /\ ~ret.titleFree) =>
          ret.err = Conflict /\ ret.status = 409 /\ ~ret.wrote
    /\ (ret.op = "update" /\ ret.dup) =>
          ret.err = Conflict /\ ret.status = 409 /\ ~ret.wrote

\* C8: a CreatePost whose title no stored post holds succeeds; the post it
\* returns has an identifier no post had before, the caller as owning user, and
\* equal creation and update timestamps not before the start of the call.
C8_Created ==
    (ret.op = "create" /\ ret.titleFree) =>
        /\ ret.err = "" /\ ret.status = 201
        /\ ret.post.id \notin ret.issuedBefore
        /\ ret.post.id \in DOMAIN posts /\ posts[ret.post.id] = ret.post
        /\ ret.post.title = ret.title
        /\ ret.post.user = ret.caller
        /\ ret.post.createdAt = ret.post.updatedAt
        /\ ret.post.createdAt >= ret.start

\* a post is created after another was deleted, at a later time than the call began
C8_Witness ==
    /\ ret.op = "create" /\ ret.titleFree /\ ret.err = ""
    /\ deleted # {}
    /\ ret.post.createdAt > ret.start

\* C9 as stated: a successful UpdatePost returns the post as the existence
\* check fetched it.
C9_ReturnsFetched ==
    (ret.op = "update" /\ ret.err = "") => ret.post = ret.fetched

\* C9 as amended: a successful UpdatePost returns the fetched record with
\* the values of the write assigned to it: each non-empty title, content and
\* image of the request, the caller as owning user and the call's update
\* timestamp; the identifier, the creation timestamp and the fields the request
\* left empty are the fetched ones, whatever the store holds after the write.
C9_ReturnsAssigned ==
    (ret.op = "update" /\ ret.err = "") =>
        /\ ret.post.id = ret.fetched.id
        /\ ret.post.createdAt = ret.fetched.createdAt
        /\ ret.post.title =
              (IF ret.data.title # "" THEN ret.data.title ELSE ret.fetched.title)
        /\ ret.post.content =
              (IF ret.data.content # "" THEN ret.data.content ELSE ret.fetched.content)
        /\ ret.post.image =
              (IF ret.data.image # "" THEN ret.data.image ELSE ret.fetched.image)
        /\ ret.post.user = ret.caller
        /\ ret.post.updatedAt = ret.now

\* the returned post is neither the fetched one nor the stored one
C9_Witness ==
    /\ ret.op = "update" /\ ret.err = ""
    /\ ret.after # NoPost
    /\ ret.post # ret.fetched
    /\ ret.post # ret.after

\* C10: an UpdatePost that returns success has written its fields to a stored
\* row, also when a DeletePost for the identifier interleaves.
C10_UpdateWrote ==
    (ret.op = "update" /\ ret.err = "") =>
        /\ ret.rows = 1
        /\ ret.id \in DOMAIN posts
        /\ posts[ret.id].user = ret.caller

====
